---- MODULE Spec2Model ----
(***************************************************************************)
(* A model of two parts of the installer:                                  *)
(*   - PayloadsService (pyanaconda/modules/payloads/payloads.py): the      *)
(*     registry of created payloads and the active payload;                *)
(*   - GraphicalUserInterface and MainWindow (pyanaconda/ui/gui):          *)
(*     the sequencer that walks through the list of action classes.        *)
(* Objects are records whose fields carry the names of the attributes of   *)
(* the Python objects.  Every public method is one action; the methods     *)
(* are operators from an object (and the inputs) to the object afterwards, *)
(* so that a method that calls another one is the composition the code     *)
(* writes.                                                                 *)
(***************************************************************************)
EXTENDS Integers, Sequences, FiniteSets, TLC

VARIABLES
    svc,        \* the PayloadsService object, with the log of what the last call emitted
    call,       \* the last call made on the service: [op, arg]
    result,     \* what the last call returned
    returned,   \* the payloads returned by create_payload, in call order
    gui,        \* the GraphicalUserInterface object, with the log of the last handler
    signal      \* the last event that the interface handled

svc_vars == <<svc, call, result, returned>>
gui_vars == <<gui, signal>>

-----------------------------------------------------------------------------
(* Bounds of the model.                                                    *)

\* create_payload is called at most this many times in a behaviour
MaxPayloads == 3

\* the longest list of action classes that setup builds
MaxActions == 3

\* the most dialogs that run at once, one inside the loop of the other
MaxDialogs == 2

\* the spokes that the displayed hub can enter
MaxSpokes == 1

-----------------------------------------------------------------------------
(* Values.                                                                 *)

\* pyanaconda.modules.payloads.constants.PayloadType
PayloadType == {"DNF", "LIVE_OS", "LIVE_IMAGE"}

\* pyanaconda.modules.payloads.constants.SourceType
SourceType == {"LIVE_OS_IMAGE", "CDROM"}

\* Python's None, where a payload is expected
None == [id |-> 0, type |-> "NoneType"]

\* the kickstart data handed to the service, by what it holds for the payload
KickstartData == {"no_payload_command", "liveimg", "packages"}

\* payload modules that exist without having been created by this service
ForeignPayloads == {[id |-> -1, type |-> t] : t \in PayloadType}

\* what KickstartService.generate_kickstart returns
SuperGenerateKickstart == "str(self.get_kickstart_handler())"

\* PayloadFactory.get_type_for_kickstart: the payload type the data asks for, or None
get_type_for_kickstart(data) ==
    CASE data = "liveimg" -> "LIVE_IMAGE"
      [] data = "packages" -> "DNF"
      [] OTHER -> "NoneType"

\* PayloadFactory.create_payload: a new payload module of the type; serial is its identity
PayloadFactory_create_payload(payload_type, serial) ==
    [id |-> serial, type |-> payload_type]

\* SourceFactory.create_source: a new source module of the type
SourceFactory_create_source(source_type) ==
    [id |-> 0, type |-> source_type]

-----------------------------------------------------------------------------
(* The log.  An entry is a signal emitted or a call forwarded to a payload *)
(* module, with the service's state at that moment: what a listener or the *)
(* payload module reads from the service when it runs.                     *)

Entry(self, name, payload) ==
    [name |-> name, payload |-> payload,
     created_payloads |-> self._created_payloads,
     active_payload |-> self._active_payload]

Log(self, name, payload) ==
    [self EXCEPT !.log = Append(@, Entry(self, name, payload))]

\* the object at the start of a call: the log holds the last call only
Enter(self) == [self EXCEPT !.log = <<>>]

-----------------------------------------------------------------------------
(* PayloadsService                                                         *)

\* __init__
PayloadsService ==
    [_created_payloads |-> <<>>, _active_payload |-> None, allocated |-> 0, log |-> <<>>]

\* the created_payloads property
created_payloads(self) == self._created_payloads

\* the active_payload property
active_payload(self) == self._active_payload

\* a registry that keeps one payload per type
_add_created_payload_unique(self, module) ==
    IF \E i \in 1..Len(self._created_payloads) : self._created_payloads[i].type = module.type
    THEN Log(self, "created_payloads_changed", module)
    ELSE Log([self EXCEPT !._created_payloads = Append(@, module)],
             "created_payloads_changed", module)

\* a registry that notifies its listeners before it appends the payload
_add_created_payload_emit_first(self, module) ==
    LET emitted == Log(self, "created_payloads_changed", module)
    IN  [emitted EXCEPT !._created_payloads = Append(@, module)]

_add_created_payload(self, module) ==
    LET appended == [self EXCEPT !._created_payloads = Append(@, module)]
    IN  Log(appended, "created_payloads_changed", module)

\* an activation that accepts only the payloads of the registry
activate_payload_registered(self, payload) ==
    IF \E i \in 1..Len(self._created_payloads) : self._created_payloads[i] = payload
    THEN Log([self EXCEPT !._active_payload = payload], "active_payload_changed", payload)
    ELSE self

activate_payload(self, payload) ==
    LET assigned == [self EXCEPT !._active_payload = payload]
    IN  Log(assigned, "active_payload_changed", payload)

\* returns [self, value]: the object afterwards and the payload returned
create_payload(self, payload_type) ==
    LET payload == PayloadFactory_create_payload(payload_type, self.allocated + 1)
        made    == [self EXCEPT !.allocated = @ + 1]
        added   == _add_created_payload(made, payload)
    IN  [self |-> Log(added, "create_payload.return", payload), value |-> payload]

\* a create_source that registers what it creates, as create_payload does
create_source_registered(self, source_type) ==
    [self |-> _add_created_payload(self, SourceFactory_create_source(source_type)),
     value |-> SourceFactory_create_source(source_type)]

create_source(self, source_type) ==
    [self |-> self, value |-> SourceFactory_create_source(source_type)]

\* a process_kickstart that falls back to the package-based payload
process_kickstart_default(self, data) ==
    LET payload_type == IF get_type_for_kickstart(data) # "NoneType"
                        THEN get_type_for_kickstart(data) ELSE "DNF"
        created == create_payload(self, payload_type)
        processed == Log(created.self, "payload.process_kickstart", created.value)
    IN  activate_payload(processed, created.value)

\* a process_kickstart that activates the payload before it forwards the data
process_kickstart_activate_first(self, data) ==
    LET payload_type == get_type_for_kickstart(data)
    IN  IF payload_type # "NoneType"
        THEN LET created == create_payload(self, payload_type)
                 activated == activate_payload(created.self, created.value)
             IN  Log(activated, "payload.process_kickstart", created.value)
        ELSE self

\* a process_kickstart that leaves a payload that is active in place
process_kickstart_keep_active(self, data) ==
    LET payload_type == get_type_for_kickstart(data)
    IN  IF payload_type # "NoneType"
        THEN LET created == create_payload(self, payload_type)
                 payload_module == created.value
                 processed == Log(created.self, "payload.process_kickstart", payload_module)
             IN  IF active_payload(self) = None
                 THEN activate_payload(processed, payload_module)
                 ELSE processed
        ELSE self

process_kickstart(self, data) ==
    LET payload_type == get_type_for_kickstart(data)
    IN  IF payload_type # "NoneType"
        THEN LET created == create_payload(self, payload_type)
                 payload_module == created.value
                 processed == Log(created.self, "payload.process_kickstart", payload_module)
             IN  activate_payload(processed, payload_module)
        ELSE self

setup_kickstart(self, data) ==
    IF active_payload(self) # None
    THEN Log(self, "payload.setup_kickstart", active_payload(self))
    ELSE self

\* a generate_kickstart that is also empty when no payload is active
generate_kickstart_unless_dnf(self) ==
    IF active_payload(self) = None \/ active_payload(self).type # "DNF"
    THEN ""
    ELSE SuperGenerateKickstart

\* a generate_kickstart without the check of the payload type
generate_kickstart_any_active(self) ==
    IF active_payload(self) # None
    THEN ""
    ELSE SuperGenerateKickstart

\* returns the kickstart string
generate_kickstart(self) ==
    IF active_payload(self) # None /\ active_payload(self).type # "DNF"
    THEN ""
    ELSE SuperGenerateKickstart

generate_temporary_kickstart(self) == SuperGenerateKickstart

-----------------------------------------------------------------------------
(* The calls on the service.                                               *)

\* the payloads that the calls logged in the object have returned
Returns(self) ==
    LET idx == {i \in 1..Len(self.log) : self.log[i].name = "create_payload.return"}
        RECURSIVE upto(_)
        upto(n) == IF n = 0 THEN <<>>
                   ELSE IF n \in idx THEN Append(upto(n - 1), self.log[n].payload)
                   ELSE upto(n - 1)
    IN  upto(Len(self.log))

\* a call's argument or return value: a payload or source module, a string, or neither
Obj(module) == [obj |-> module, text |-> ""]
Text(string) == [obj |-> None, text |-> string]
NoValue == [obj |-> None, text |-> ""]

Done(op, arg, after, value) ==
    /\ svc' = after
    /\ call' = [op |-> op, arg |-> arg]
    /\ result' = value
    /\ returned' = returned \o Returns(after)
    /\ UNCHANGED gui_vars

CreatePayload ==
    \E payload_type \in PayloadType :
        /\ svc.allocated < MaxPayloads
        /\ LET r == create_payload(Enter(svc), payload_type)
           IN  Done("create_payload", Text(payload_type), r.self, Obj(r.value))

CreateSource ==
    \E source_type \in SourceType :
        LET r == create_source(Enter(svc), source_type)
        IN  Done("create_source", Text(source_type), r.self, Obj(r.value))

\* any payload module can be passed: a created one or one made elsewhere
ActivatePayload ==
    \E payload \in {svc._created_payloads[i] : i \in 1..Len(svc._created_payloads)}
                   \cup ForeignPayloads :
        Done("activate_payload", Obj(payload), activate_payload(Enter(svc), payload), NoValue)

ProcessKickstart ==
    \E data \in KickstartData :
        /\ get_type_for_kickstart(data) = "NoneType" \/ svc.allocated < MaxPayloads
        /\ Done("process_kickstart", Text(data), process_kickstart(Enter(svc), data), NoValue)

SetupKickstart ==
    \E data \in KickstartData :
        Done("setup_kickstart", Text(data), setup_kickstart(Enter(svc), data), NoValue)

GenerateKickstart ==
    Done("generate_kickstart", NoValue, Enter(svc), Text(generate_kickstart(Enter(svc))))

GenerateTemporaryKickstart ==
    Done("generate_temporary_kickstart", NoValue, Enter(svc),
         Text(generate_temporary_kickstart(Enter(svc))))

SvcInit ==
    /\ svc = PayloadsService
    /\ call = [op |-> "__init__", arg |-> NoValue]
    /\ result = NoValue
    /\ returned = <<>>

SvcNext ==
    \/ CreatePayload
    \/ CreateSource
    \/ ActivatePayload
    \/ ProcessKickstart
    \/ SetupKickstart
    \/ GenerateKickstart
    \/ GenerateTemporaryKickstart


-----------------------------------------------------------------------------
(* The graphical interface.  An action class is a number, its place in the *)
(* ordered list that setup builds.  An instantiated action is a record of  *)
(* its class, its skipTo attribute and its serial (its identity).          *)

\* the __name__ of an action class
ClassName(actionClass) == [name |-> "class", n |-> actionClass]

\* the __name__ of the class of an action class, which is its metaclass
MetaclassName == [name |-> "type", n |-> 0]

\* None, where the name of a class is expected
NoneName == [name |-> "None", n |-> 0]

\* None, where an action is expected
NoneAction == [cls |-> 0, skipTo |-> NoneName, serial |-> 0]

ActionClasses == 1..MaxActions

\* what a screen may have set its skipTo to
SkipToValues == {NoneName, MetaclassName} \cup {ClassName(c) : c \in ActionClasses}

\* a.pop(), which takes the last entry
pop(a) == SubSeq(a, 1, Len(a) - 1)

\* a.pop(0)
pop_0(a) == Tail(a)

\* a.pop(1)
pop_1(a) == <<a[1]>> \o SubSeq(a, 3, Len(a))

GLog(self, name, cls, serial) ==
    [self EXCEPT !.log = Append(@, [name |-> name, cls |-> cls, serial |-> serial,
                                    _actions |-> self._actions,
                                    _currentAction |-> self._currentAction.serial])]

\* an exception leaves the method: the object stays as it is at that moment
Raise(self, exception) ==
    [GLog(self, exception, 0, 0) EXCEPT !.raised = exception]

\* the object when a method or a signal handler starts; entry keeps what the
\* handler found
GEnter(self) ==
    [self EXCEPT !.log = <<>>, !.raised = "",
                 !.entry = [_actions |-> self._actions,
                            _currentAction |-> self._currentAction,
                            mainWindow |-> self.mainWindow,
                            dialogs |-> self.dialogs,
                            instantiated |-> Len(self.instantiated)]]

-----------------------------------------------------------------------------
(* MainWindow                                                              *)

\* __init__
MainWindow ==
    [_current_action |-> NoneAction, _stack_contents |-> {},
     visible_child |-> NoneAction, _overlay_img |-> "None"]

\* a _setVisibleChild that takes the screen it replaces off the stack
_setVisibleChild_replace(window, child) ==
    [window EXCEPT !._stack_contents = (@ \ {window.visible_child}) \cup {child},
                   !.visible_child = child]

\* lines 339-342 and 353; the accelerators and the focus are left out
_setVisibleChild(window, child) ==
    [window EXCEPT !._stack_contents = @ \cup {child}, !.visible_child = child]

setCurrentAction(window, standalone) ==
    _setVisibleChild([window EXCEPT !._current_action = standalone], standalone)

\* an enterSpoke that makes the spoke the current action
enterSpoke_as_current(window, spoke) ==
    _setVisibleChild([window EXCEPT !._current_action = spoke], spoke)

enterSpoke(window, spoke) == _setVisibleChild(window, spoke)

returnToHub(window) == _setVisibleChild(window, window._current_action)

lightbox_on(window) == [window EXCEPT !._overlay_img = "Gtk.Image"]

\* [window, raised]: None has no destroy
lightbox_off(window) ==
    IF window._overlay_img = "None"
    THEN [window |-> window, raised |-> "AttributeError"]
    ELSE [window |-> [window EXCEPT !._overlay_img = "None"], raised |-> ""]

-----------------------------------------------------------------------------
(* GraphicalUserInterface                                                  *)

\* __init__ and setup, with the action classes that getActionClasses found
GraphicalUserInterface(n) ==
    [_actions |-> [i \in 1..n |-> i], _currentAction |-> NoneAction,
     mainWindow |-> MainWindow,
     hidden |-> {},         \* the actions whose window was hidden
     instantiated |-> <<>>, \* the classes instantiated so far, in order
     dialogs |-> <<>>,      \* the dialogs that are running, the innermost last
     where |-> "setup",     \* setup, main (in Gtk.main), run_returned, run_raised,
                            \* main_quit, sys_exit
     raised |-> "", log |-> <<>>,
     entry |-> [_actions |-> <<>>, _currentAction |-> NoneAction,
                mainWindow |-> MainWindow, dialogs |-> <<>>, instantiated |-> 0]]

\* The outcomes of _instantiateAction, as [self, value]: the action is a completed
\* standalone spoke and None is returned, or the object is returned, with the skipTo
\* that the screen sets.
_instantiateAction(self, actionClass) ==
    LET made == [self EXCEPT !.instantiated = Append(@, actionClass)]
        serial == Len(made.instantiated)
    IN  {[self |-> GLog(made, "completed", actionClass, serial), value |-> NoneAction]}
        \cup {[self |-> GLog(made, "connect_after", actionClass, serial),
               value |-> [cls |-> actionClass, skipTo |-> skipTo, serial |-> serial]]
              : skipTo \in SkipToValues}

\* self._actions[ndx].__class__.__name__: the entries of the list are classes
actions_class_name(actionClass) == MetaclassName

\* a run that does not look whether the list is used up
never_exhausted(self) == FALSE

\* run, line 565: not self._actions
exhausted(self) == self._actions = <<>>

\* run, lines 560-566: the objects after the loop; where is run_returned or
\* raised is set when the method ends there
RECURSIVE run_while(_)
run_while(self) ==
    IF self._currentAction # NoneAction THEN {self}
    ELSE IF self._actions = <<>> THEN {[Raise(self, "IndexError") EXCEPT !.where = "run_raised"]}
    ELSE UNION {
        LET assigned == [r.self EXCEPT !._currentAction = r.value]
            popped == IF r.value = NoneAction
                      THEN [assigned EXCEPT !._actions = pop_0(@)] ELSE assigned
        IN  IF exhausted(popped)
            THEN {[GLog(popped, "return", 0, 0) EXCEPT !.where = "run_returned"]}
            ELSE run_while(popped)
        : r \in _instantiateAction(self, Head(self._actions)) }

\* run, lines 568-594
run_display(self) ==
    LET cur == self._currentAction
        initialized == GLog(self, "initialize", cur.cls, cur.serial)
        refreshed == GLog(initialized, "refresh", cur.cls, cur.serial)
        displayed == [refreshed EXCEPT !.mainWindow = setCurrentAction(@, cur)]
    IN  [GLog(displayed, "setCurrentAction", cur.cls, cur.serial) EXCEPT !.where = "main"]

run(self) ==
    {IF after.where = "setup" THEN run_display(after) ELSE after : after \in run_while(self)}

\* _on_continue_clicked, lines 652-664
skip_to(self) ==
    IF self._currentAction.skipTo # NoneName
    THEN LET found == {ndx \in 2..Len(self._actions) :
                          actions_class_name(self._actions[ndx]) = self._currentAction.skipTo}
         IN  IF found # {}
             THEN LET ndx == CHOOSE i \in found : \A j \in found : i <= j
                  IN  GLog([self EXCEPT !._actions = <<@[1]>> \o SubSeq(@, ndx, Len(@))],
                           "skipTo", self._actions[ndx], 0)
             ELSE self
    ELSE self

\* a candidate taken from the far end of the list
last_candidate(self) == self._actions[Len(self._actions)]

\* _on_continue_clicked, line 670: self._actions[1]
next_candidate(self) == self._actions[2]

\* _on_continue_clicked, lines 669-676, as [self, value]: value is nextAction
RECURSIVE next_while(_)
next_while(self) ==
    IF Len(self._actions) < 2 THEN {[self |-> Raise(self, "IndexError"), value |-> NoneAction]}
    ELSE UNION {
        IF r.value = NoneAction
        THEN next_while([r.self EXCEPT !._actions = pop_1(@)])
        ELSE {r}
        : r \in _instantiateAction(self, next_candidate(self)) }

\* what get_may_continue gives when it is called on the action object that the
\* handler passes to itself in place of a window
ActionGetMayContinue == {"AttributeError", "False", "True"}

\* an advance that makes the new action current before it is set up and displayed
advance_assign_first(self, nextAction) ==
    LET assigned == [self EXCEPT !._currentAction = nextAction, !._actions = pop_0(@)]
        refreshed == GLog(assigned, "refresh", nextAction.cls, nextAction.serial)
    IN  GLog([refreshed EXCEPT !.mainWindow = setCurrentAction(@, nextAction)],
             "setCurrentAction", nextAction.cls, nextAction.serial)

\* an advance that leaves the action it moved away from in the list
advance_in_place(self, nextAction) ==
    LET refreshed == GLog(self, "refresh", nextAction.cls, nextAction.serial)
        displayed == GLog([refreshed EXCEPT !.mainWindow = setCurrentAction(@, nextAction)],
                          "setCurrentAction", nextAction.cls, nextAction.serial)
    IN  [displayed EXCEPT !._currentAction = nextAction]

\* _on_continue_clicked, lines 688-697
advance(self, nextAction) ==
    LET refreshed == GLog(self, "refresh", nextAction.cls, nextAction.serial)
        displayed == GLog([refreshed EXCEPT !.mainWindow = setCurrentAction(@, nextAction)],
                          "setCurrentAction", nextAction.cls, nextAction.serial)
    IN  [displayed EXCEPT !._currentAction = nextAction, !._actions = pop_0(@)]

\* a test for the last screen that is off by one
no_entry_left(self) == Len(self._actions) = 0

\* _on_continue_clicked, line 643: the current action is the only entry left
on_last_screen(self) == Len(self._actions) = 1

\* _on_continue_clicked: the objects the handler can leave
RECURSIVE _on_continue_clicked(_, _)
_on_continue_clicked(self, get_may_continue) ==
    IF get_may_continue = "AttributeError" THEN {Raise(self, "AttributeError")}
    ELSE IF get_may_continue = "False" THEN {GLog(self, "return", 0, 0)}
    ELSE IF on_last_screen(self)
    THEN {[GLog(self, "Gtk.main_quit", 0, 0) EXCEPT !.where = "main_quit"]}
    ELSE UNION {
        IF r.self.raised # "" THEN {r.self}
        ELSE LET nextAction == r.value
                 initialized == GLog(r.self, "initialize", nextAction.cls, nextAction.serial)
             IN  \* nextAction.showable
                 {advance(initialized, nextAction)}
                 \cup
                 \* not nextAction.showable
                 UNION {
                    LET hid == [GLog(initialized, "hide", initialized._currentAction.cls,
                                     initialized._currentAction.serial)
                                EXCEPT !.hidden = @ \cup {initialized._currentAction}]
                        popped == [hid EXCEPT !._actions = pop_0(@)]
                    IN  _on_continue_clicked(popped, may)
                    : may \in ActionGetMayContinue }
        : r \in next_while(skip_to(self)) }

\* _on_quit_clicked up to dialog.run(), which runs a loop of its own
_on_quit_clicked(self, get_quit_button) ==
    IF ~get_quit_button THEN GLog(self, "return", 0, 0)
    ELSE LET lit == [self EXCEPT !.mainWindow = lightbox_on(@)]
         IN  [GLog(lit, "dialog.run", 0, 0) EXCEPT !.dialogs = Append(@, "quitDialog")]

\* _on_quit_clicked from the return of dialog.run() with rc
_on_quit_clicked_rc(self, rc) ==
    LET closed == [self EXCEPT !.dialogs = SubSeq(@, 1, Len(@) - 1)]
        off == lightbox_off(closed.mainWindow)
    IN  IF off.raised # "" THEN Raise(closed, off.raised)
        ELSE LET dark == GLog([closed EXCEPT !.mainWindow = off.window], "lightbox_off", 0, 0)
             IN  IF rc = 1
                 THEN [GLog(dark, "sys.exit", 0, 0) EXCEPT !.where = "sys_exit"]
                 ELSE dark

\* showError, showDetailedError and showYesNoQuestion up to dlg.run(): a dialog
\* in the lightbox, run from the main loop on behalf of another thread
showError(self) ==
    LET lit == [self EXCEPT !.mainWindow = lightbox_on(@)]
    IN  [GLog(lit, "dlg.run", 0, 0) EXCEPT !.dialogs = Append(@, "errorDialog")]

\* showError, showDetailedError and showYesNoQuestion from the return of dlg.run()
showError_rc(self, rc) ==
    LET closed == [self EXCEPT !.dialogs = SubSeq(@, 1, Len(@) - 1)]
        off == lightbox_off(closed.mainWindow)
    IN  IF off.raised # "" THEN Raise(closed, off.raised)
        ELSE GLog([closed EXCEPT !.mainWindow = off.window], "lightbox_off", 0, 0)

\* MainWindow._on_delete_event
_on_delete_event(self, get_quit_button) ==
    IF self.mainWindow._current_action # NoneAction
    THEN _on_quit_clicked(self, get_quit_button)
    ELSE self

-----------------------------------------------------------------------------
(* The events of the interface.                                            *)

\* arg is what the handler's first question to the window gave, or the dialog's rc
Handled(name, arg, after) ==
    /\ gui' = after
    /\ signal' = [name |-> name, arg |-> arg]
    /\ UNCHANGED svc_vars

\* a screen's buttons can be used when it is the one displayed, its window is
\* not hidden and no dialog is running
Usable ==
    /\ gui.where = "main"
    /\ gui.dialogs = <<>>
    /\ gui.mainWindow.visible_child = gui._currentAction
    /\ gui._currentAction \notin gui.hidden

Run ==
    /\ gui.where = "setup"
    /\ \E after \in run(GEnter(gui)) : Handled("run", "", after)

ContinueClicked ==
    /\ Usable
    /\ \E get_may_continue \in {"False", "True"} :
         \E after \in _on_continue_clicked(GEnter(gui), get_may_continue) :
            Handled("continue-clicked", get_may_continue, after)

QuitClicked ==
    /\ Usable
    /\ \E get_quit_button \in BOOLEAN :
         Handled("quit-clicked", IF get_quit_button THEN "True" ELSE "False",
                 _on_quit_clicked(GEnter(gui), get_quit_button))

\* the window manager asks to close the main window, also while a dialog runs
DeleteEvent ==
    /\ gui.where = "main"
    /\ Len(gui.dialogs) < MaxDialogs
    /\ \E get_quit_button \in BOOLEAN :
         Handled("delete-event", IF get_quit_button THEN "True" ELSE "False",
                 _on_delete_event(GEnter(gui), get_quit_button))

\* another thread has the main loop show an error or ask a question, also while
\* a dialog runs: the loop of a dialog runs what is queued for the main loop
ShowError ==
    /\ gui.where = "main"
    /\ Len(gui.dialogs) < MaxDialogs
    /\ Handled("showError", "", showError(GEnter(gui)))

\* the innermost dialog returns rc; 1 is the button that confirms
DialogResponse ==
    /\ gui.where = "main"
    /\ gui.dialogs # <<>>
    /\ \E rc \in {0, 1} :
         Handled("response", IF rc = 1 THEN "1" ELSE "0",
                 IF gui.dialogs[Len(gui.dialogs)] = "quitDialog"
                 THEN _on_quit_clicked_rc(GEnter(gui), rc)
                 ELSE showError_rc(GEnter(gui), rc))

\* the spokes are objects of their own, none of them an action of the list
Spokes == {[cls |-> MaxActions + s, skipTo |-> NoneName, serial |-> MaxActions + s] :
              s \in 1..MaxSpokes}

\* the hub enters a spoke, or a spoke another, while no dialog runs
EnterSpoke ==
    /\ gui.where = "main"
    /\ gui.dialogs = <<>>
    /\ gui._currentAction \notin gui.hidden
    /\ \E spoke \in Spokes :
         Handled("enterSpoke", "",
                 GLog([GEnter(gui) EXCEPT !.mainWindow = enterSpoke(@, spoke)],
                      "enterSpoke", spoke.cls, spoke.serial))

\* the displayed spoke goes back to its hub
ReturnToHub ==
    /\ gui.where = "main"
    /\ gui.dialogs = <<>>
    /\ gui.mainWindow.visible_child \in Spokes
    /\ Handled("returnToHub", "",
               GLog([GEnter(gui) EXCEPT !.mainWindow = returnToHub(@)],
                    "returnToHub", 0, 0))

GuiInit ==
    /\ \E n \in 0..MaxActions : gui = GraphicalUserInterface(n)
    /\ signal = [name |-> "", arg |-> ""]

GuiNext ==
    \/ Run
    \/ ContinueClicked
    \/ QuitClicked
    \/ DeleteEvent
    \/ ShowError
    \/ DialogResponse
    \/ EnterSpoke
    \/ ReturnToHub

-----------------------------------------------------------------------------
(* The two specifications: the service alone and the interface alone.      *)

vars == <<svc, call, result, returned, gui, signal>>

\* the service, next to an interface that is never run
PayloadsInit ==
    /\ SvcInit
    /\ gui = GraphicalUserInterface(0)
    /\ signal = [name |-> "", arg |-> ""]

SpecPayloads == PayloadsInit /\ [][SvcNext]_vars

\* the interface, next to a service that is never called
InterfaceInit ==
    /\ GuiInit
    /\ SvcInit

SpecGui == InterfaceInit /\ [][GuiNext]_vars

-----------------------------------------------------------------------------
(* Claims about the payloads service.                                      *)

Elements(seq) == {seq[i] : i \in 1..Len(seq)}

LogNames(self) == [i \in 1..Len(self.log) |-> self.log[i].name]

\* C1: created_payloads is the sequence of the payloads that the create_payload
\* invocations returned, in invocation order: one entry per invocation, whatever
\* the types, and whatever else was called in between.
C1_CreatedIsReturned ==
    /\ created_payloads(svc) = returned
    /\ Len(created_payloads(svc)) = svc.allocated

C1_Witness ==
    /\ Len(returned) >= 2
    /\ returned[1].type = returned[2].type
    /\ call.op = "create_payload"
    /\ active_payload(svc) \in ForeignPayloads

\* C2: after activate_payload(d) the active payload is d, also when d is not in
\* created_payloads, and d is not added to created_payloads by the call.
C2_ActivateSetsActive ==
    call.op = "activate_payload" =>
        /\ active_payload(svc) = call.arg.obj
        /\ created_payloads(svc) = returned
        /\ call.arg.obj \in ForeignPayloads => call.arg.obj \notin Elements(created_payloads(svc))

C2_Witness ==
    /\ call.op = "activate_payload"
    /\ call.arg.obj \in ForeignPayloads
    /\ active_payload(svc) = call.arg.obj
    /\ Len(created_payloads(svc)) > 0

\* C3: with a payload active, generate_kickstart returns the empty string when
\* the active payload is not of the DNF type, and what the superclass generates
\* when it is.
C3_GenerateKickstart ==
    (call.op = "generate_kickstart" /\ active_payload(svc) # None) =>
        result.text = IF active_payload(svc).type # "DNF" THEN "" ELSE SuperGenerateKickstart

C3_Witness ==
    /\ call.op = "generate_kickstart"
    /\ active_payload(svc) # None
    /\ active_payload(svc).type = "DNF"
    /\ result.text = SuperGenerateKickstart

\* C8: process_kickstart with data for which no payload type is recognized
\* changes neither created_payloads nor active_payload and emits nothing.
C8_ProcessKickstartNoType ==
    [][(call'.op = "process_kickstart" /\ get_type_for_kickstart(call'.arg.text) = "NoneType") =>
          /\ created_payloads(svc') = created_payloads(svc)
          /\ active_payload(svc') = active_payload(svc)
          /\ svc'.log = <<>>]_vars

C8_Witness ==
    /\ call.op = "process_kickstart"
    /\ get_type_for_kickstart(call.arg.text) = "NoneType"
    /\ Len(created_payloads(svc)) > 0
    /\ active_payload(svc) # None

\* C9 as claimed: the payload is already the active payload at the moment the
\* configuration is forwarded into its process_kickstart.
C9_ActiveWhenForwarded ==
    \A i \in 1..Len(svc.log) :
        svc.log[i].name = "payload.process_kickstart" =>
            svc.log[i].active_payload = svc.log[i].payload

\* C9 as the code has it: process_kickstart with a recognized type creates and
\* registers the payload, then forwards the configuration into it, and only then
\* activates it; when the payload parses the configuration it is the last
\* element of created_payloads and not the active payload.
C9_ForwardedBeforeActivated ==
    (call.op = "process_kickstart" /\ get_type_for_kickstart(call.arg.text) # "NoneType") =>
        /\ LogNames(svc) = <<"created_payloads_changed", "create_payload.return",
                             "payload.process_kickstart", "active_payload_changed">>
        /\ svc.log[3].payload = svc.log[1].payload
        /\ svc.log[3].created_payloads[Len(svc.log[3].created_payloads)] = svc.log[3].payload
        /\ svc.log[3].active_payload # svc.log[3].payload
        /\ svc.log[4].payload = svc.log[3].payload
        /\ active_payload(svc) = svc.log[3].payload

C9_Witness ==
    /\ call.op = "process_kickstart"
    /\ get_type_for_kickstart(call.arg.text) # "NoneType"
    /\ Len(svc.log) = 4
    /\ svc.log[3].active_payload # None
    /\ active_payload(svc) = svc.log[3].payload

\* C10: create_source returns a source of the type asked for and changes
\* neither created_payloads nor active_payload, and emits nothing.
C10_CreateSourceFrame ==
    [][call'.op = "create_source" =>
          /\ created_payloads(svc') = created_payloads(svc)
          /\ active_payload(svc') = active_payload(svc)
          /\ svc'.log = <<>>
          /\ result'.obj.type = call'.arg.text]_vars

C10_Witness ==
    /\ call.op = "create_source"
    /\ result.obj.type \in SourceType
    /\ Len(created_payloads(svc)) > 0
    /\ active_payload(svc) # None

-----------------------------------------------------------------------------
(* Claims about the graphical interface.                                   *)

\* the classes that the last handler instantiated, in order
NewlyInstantiated ==
    SubSeq(gui.instantiated, gui.entry.instantiated + 1, Len(gui.instantiated))

\* the classes for which the last handler logged the entry called name
Logged(name) == {gui.log[i].cls : i \in {j \in 1..Len(gui.log) : gui.log[j].name = name}}

\* the first place of the sequence whose entry is not in the set; 0 when there is none
FirstNotIn(seq, set) ==
    IF \A i \in 1..Len(seq) : seq[i] \in set THEN 0
    ELSE CHOOSE i \in 1..Len(seq) :
            /\ seq[i] \notin set
            /\ \A j \in 1..(i - 1) : seq[j] \in set

AcceptedContinue == signal.name = "continue-clicked" /\ signal.arg = "True"

\* C4: run on a list with an action that does not decline displays the first
\* action in list order that does not decline; the declining actions before it
\* are removed and never displayed, and the list is then the displayed action
\* followed by the rest, untouched.
C4_RunStartsOnFirstNotDeclining ==
    (signal.name = "run" /\ FirstNotIn(gui.entry._actions, Logged("completed")) # 0) =>
        LET first == FirstNotIn(gui.entry._actions, Logged("completed"))
        IN  /\ gui.where = "main"
            /\ gui._currentAction.cls = gui.entry._actions[first]
            /\ gui.mainWindow._current_action = gui._currentAction
            /\ gui.mainWindow.visible_child = gui._currentAction
            /\ gui.mainWindow._stack_contents = {gui._currentAction}
            /\ Logged("setCurrentAction") = {gui._currentAction.cls}
            /\ Logged("completed") = {gui.entry._actions[i] : i \in 1..(first - 1)}
            /\ gui._actions = SubSeq(gui.entry._actions, first, Len(gui.entry._actions))

C4_Witness ==
    /\ signal.name = "run"
    /\ gui.entry._actions = <<1, 2, 3>>
    /\ Logged("completed") = {1}
    /\ gui._currentAction.cls = 2
    /\ gui._actions = <<2, 3>>
    /\ gui.where = "main"

\* C5 as claimed: when the current action's skipTo is the class name of a later
\* entry, an accepted continue (one that raises nothing) goes to the first such
\* entry: it is the first class the handler instantiates and no entry in
\* between is instantiated.
C5_SkipToJumps ==
    LET old == gui.entry._actions
        named == {k \in 2..Len(old) : ClassName(old[k]) = gui.entry._currentAction.skipTo}
    IN  (AcceptedContinue /\ gui.raised = "" /\ Len(old) > 1 /\ named # {}) =>
            LET match == CHOOSE k \in named : \A j \in named : k <= j
            IN  /\ NewlyInstantiated # <<>>
                /\ NewlyInstantiated[1] = old[match]
                /\ \A j \in 2..(match - 1) : old[j] \notin Elements(NewlyInstantiated)

\* C6: with one action left in the list, an accepted continue quits the main
\* loop; it instantiates nothing and leaves the list, the current action and
\* the main window as they were.
C6_ContinueOnLastQuits ==
    (AcceptedContinue /\ Len(gui.entry._actions) = 1) =>
        /\ gui.where = "main_quit"
        /\ gui.raised = ""
        /\ NewlyInstantiated = <<>>
        /\ gui._actions = gui.entry._actions
        /\ gui._currentAction = gui.entry._currentAction
        /\ gui.mainWindow = gui.entry.mainWindow

C6_Witness ==
    /\ AcceptedContinue
    /\ Len(gui.entry._actions) = 1
    /\ gui.where = "main_quit"
    /\ gui._actions = <<3>>
    /\ Len(gui.instantiated) >= 2

\* C7 as claimed: between start and termination, with no handler running, the
\* list is not empty and its first entry is the class of the displayed action,
\* which is both the sequencer's _currentAction and the window's current_action.
C7_CurrentActionIsFirst ==
    (gui.where = "main" /\ gui.dialogs = <<>>) =>
        /\ gui._actions # <<>>
        /\ gui._actions[1] = gui._currentAction.cls
        /\ gui.mainWindow._current_action = gui._currentAction

\* the dialog that the last response closed
ClosedDialog == gui.entry.dialogs[Len(gui.entry.dialogs)]

\* C11 as claimed: an accepted quit shows the confirmation dialog in the
\* lightbox; when the dialog returns 1 the process exits, and on every other
\* result the list, the current action and the displayed screen are as before
\* and the overlay is removed.
C11_QuitConfirmOrStay ==
    /\ (signal.name = "quit-clicked" /\ signal.arg = "True") =>
          /\ gui.dialogs = <<"quitDialog">>
          /\ gui.mainWindow._overlay_img # "None"
    /\ (signal.name = "response" /\ ClosedDialog = "quitDialog") =>
          IF signal.arg = "1"
          THEN gui.where = "sys_exit"
          ELSE /\ gui.where = "main"
               /\ gui._actions = gui.entry._actions
               /\ gui._currentAction = gui.entry._currentAction
               /\ gui.mainWindow.visible_child = gui.entry.mainWindow.visible_child
               /\ gui.mainWindow._current_action = gui.entry.mainWindow._current_action
               /\ gui.mainWindow._overlay_img = "None"

\* the places of the log where the last handler hid the window of the current
\* action, which it does for a candidate that is not showable; the entry before
\* is the initialize of that candidate
Hides == {i \in 1..Len(gui.log) : gui.log[i].name = "hide"}

\* the last such place before place j of the log; 0 when there is none
LastHideBefore(j) ==
    IF \E i \in Hides : i < j
    THEN CHOOSE i \in Hides : i < j /\ \A k \in Hides : k < j => k <= i
    ELSE 0

\* C12 as claimed: when the current action's skipTo names no later entry, and
\* the scan finds none, an accepted continue raises no error and goes through
\* the entries after the current one in list order, one after the other.
C12_SkipToMissAdvances ==
    LET old == gui.entry._actions
        skipTo == gui.entry._currentAction.skipTo
    IN  (/\ AcceptedContinue
         /\ Len(old) > 1
         /\ skipTo # NoneName
         /\ \A k \in 2..Len(old) : ClassName(old[k]) # skipTo
         /\ \A k \in 2..Len(old) : actions_class_name(old[k]) # skipTo) =>
            /\ gui.raised = ""
            /\ NewlyInstantiated # <<>>
            /\ NewlyInstantiated = SubSeq(old, 2, 1 + Len(NewlyInstantiated))

\* C13 as claimed: a candidate that is not showable is never displayed, the
\* window of its predecessor is hidden, and the handling goes on in the same
\* signal: it quits the main loop when the candidate is the last entry, and
\* instantiates the entry after the candidate otherwise.
C13_NotShowableIsPassedOver ==
    \A i \in Hides :
        LET candidate == gui.log[i - 1]
            list == gui.log[i]._actions   \* the predecessor, the candidate, the rest
        IN  /\ candidate.cls \notin Logged("setCurrentAction")
            /\ gui.mainWindow._current_action.serial # candidate.serial
            /\ gui.entry._currentAction \in gui.hidden
            /\ gui.raised = ""
            /\ IF Len(list) = 2
               THEN gui.where = "main_quit"
               ELSE \E j \in (i + 1)..Len(gui.log) :
                       /\ gui.log[j].name \in {"completed", "connect_after"}
                       /\ gui.log[j].cls = list[3]

C15_AllDeclineTerminates ==
    LET old == gui.entry._actions
    IN  (/\ AcceptedContinue
         /\ Len(old) > 1
         /\ {old[k] : k \in 2..Len(old)} \subseteq Logged("completed")) =>
            /\ gui.raised = ""
            /\ gui.where \in {"sys_exit", "main_quit"}

\* C16: run on a list, not empty, whose actions all decline removes them all,
\* displays nothing, does not enter the main loop and returns without an error;
\* the list is then empty and the current action unset.
C16_RunAllDeclineReturns ==
    (/\ signal.name = "run"
     /\ gui.entry._actions # <<>>
     /\ FirstNotIn(gui.entry._actions, Logged("completed")) = 0) =>
        /\ gui.where = "run_returned"
        /\ gui.raised = ""
        /\ gui._actions = <<>>
        /\ gui._currentAction = NoneAction
        /\ gui.mainWindow = MainWindow
        /\ Logged("setCurrentAction") = {}
        /\ gui.instantiated = gui.entry._actions

C16_Witness ==
    /\ signal.name = "run"
    /\ gui.entry._actions = <<1, 2, 3>>
    /\ Logged("completed") = {1, 2, 3}
    /\ gui.where = "run_returned"
    /\ gui._actions = <<>>

\* C17 as claimed: run on an empty list raises no error and displays nothing.
C17_RunOnEmptyList ==
    (signal.name = "run" /\ gui.entry._actions = <<>>) =>
        /\ gui.raised = ""
        /\ gui.mainWindow = MainWindow

\* C18 as claimed: with no payload active, setup_kickstart forwards nothing and
\* changes nothing, and generate_kickstart returns the empty string.
C18_NoActiveIsEmpty ==
    [][active_payload(svc) = None =>
          /\ call'.op = "setup_kickstart" =>
                /\ svc'.log = <<>>
                /\ created_payloads(svc') = created_payloads(svc)
                /\ active_payload(svc') = None
          /\ call'.op = "generate_kickstart" => result'.text = ""]_vars

\* C18 as the code has it: with no payload active, setup_kickstart forwards
\* nothing and changes nothing, and generate_kickstart returns what the
\* superclass generates; it is empty only for an active payload not of the
\* DNF type.
C18_NoActiveDelegates ==
    [][active_payload(svc) = None =>
          /\ call'.op = "setup_kickstart" =>
                /\ svc'.log = <<>>
                /\ created_payloads(svc') = created_payloads(svc)
                /\ active_payload(svc') = None
          /\ call'.op = "generate_kickstart" =>
                /\ result'.text = SuperGenerateKickstart
                /\ svc'.log = <<>>
                /\ created_payloads(svc') = created_payloads(svc)
                /\ active_payload(svc') = None]_vars

C18_Witness ==
    /\ call.op = "generate_kickstart"
    /\ active_payload(svc) = None
    /\ result.text = SuperGenerateKickstart
    /\ Len(created_payloads(svc)) > 0

\* C19: a continue displays at most one action, and one that comes later in the
\* original list than the action displayed before; no class is displayed twice,
\* the displayed action is the latest of those displayed so far, and the scan
\* for the skipTo target never finds the entry of the current action.
C19_OnlyAhead ==
    /\ Cardinality(Logged("setCurrentAction")) <= 1
    /\ \A c \in Logged("setCurrentAction") : c > gui.entry.mainWindow._current_action.cls
    /\ \A a, b \in gui.mainWindow._stack_contents : a.cls = b.cls => a = b
    /\ \A a \in gui.mainWindow._stack_contents \ Spokes :
          a.cls <= gui.mainWindow._current_action.cls
    /\ \A i \in 1..(Len(gui._actions) - 1) : gui._actions[i] < gui._actions[i + 1]
    /\ \A i \in 1..Len(gui.log) :
          gui.log[i].name = "skipTo" => gui.log[i].cls # gui.entry._actions[1]

C19_Witness ==
    /\ AcceptedContinue
    /\ gui.entry.mainWindow._current_action.cls = 1
    /\ Hides # {}
    /\ Logged("skipTo") # {}
    /\ gui.mainWindow._current_action.cls = 3
    /\ Cardinality(gui.mainWindow._stack_contents) = 2

\* C20: enterSpoke displays the spoke and leaves the main window's current
\* action as it was; returnToHub displays that current action again, the object
\* that setCurrentAction was given, and adds nothing to the stack and
\* instantiates nothing, whatever spokes were entered before.
C20_SpokeAndBack ==
    /\ signal.name = "enterSpoke" =>
          /\ gui.mainWindow.visible_child \in Spokes
          /\ gui.mainWindow.visible_child.cls \in Logged("enterSpoke")
          /\ gui.mainWindow._current_action = gui.entry.mainWindow._current_action
          /\ gui.mainWindow._current_action = gui._currentAction
    /\ signal.name = "returnToHub" =>
          /\ gui.mainWindow.visible_child = gui.entry.mainWindow._current_action
          /\ gui.mainWindow.visible_child = gui._currentAction
          /\ gui.mainWindow._current_action = gui.entry.mainWindow._current_action
          /\ gui.mainWindow._stack_contents = gui.entry.mainWindow._stack_contents
          /\ Len(gui.instantiated) = gui.entry.instantiated

C20_Witness ==
    /\ signal.name = "returnToHub"
    /\ Spokes \subseteq gui.mainWindow._stack_contents
    /\ gui.entry.mainWindow.visible_child \in Spokes
    /\ gui.mainWindow.visible_child.cls = 2
    /\ Cardinality(gui.mainWindow._stack_contents) = 2 + MaxSpokes

\* C21 as claimed: when an accepted continue has displayed another action, the
\* action it moved away from is not the current action any more and is no longer
\* held in the main window's stacked screens.
C21_PreviousScreenIsDropped ==
    (AcceptedContinue /\ Logged("setCurrentAction") # {}) =>
        /\ gui._currentAction # gui.entry._currentAction
        /\ gui.mainWindow._current_action # gui.entry._currentAction
        /\ gui.entry._currentAction \notin gui.mainWindow._stack_contents

\* C21 as the code has it: when an accepted continue has displayed another
\* action, that action alone is the current action of the sequencer and of the
\* main window and is the visible screen; the action it moved away from is not
\* current any more, but it is kept: the stacked screens are those held before
\* and the new one.
C21_PreviousScreenIsKept ==
    (AcceptedContinue /\ Logged("setCurrentAction") # {}) =>
        /\ gui._currentAction # gui.entry._currentAction
        /\ gui.mainWindow._current_action = gui._currentAction
        /\ gui.mainWindow.visible_child = gui._currentAction
        /\ gui.entry._currentAction \in gui.mainWindow._stack_contents
        /\ gui.mainWindow._stack_contents =
              gui.entry.mainWindow._stack_contents \cup {gui._currentAction}

C21_Witness ==
    /\ AcceptedContinue
    /\ Logged("setCurrentAction") = {3}
    /\ gui.entry._currentAction.cls = 2
    /\ {a.cls : a \in gui.mainWindow._stack_contents} = {1, 2, 3}

\* C22: process_kickstart with data of a recognized payload type appends
\* exactly one payload to created_payloads, of that type, and leaves it as the
\* active payload, whichever payload was active before.
C22_ProcessKickstartCreatesAndActivates ==
    [][(call'.op = "process_kickstart" /\ get_type_for_kickstart(call'.arg.text) # "NoneType") =>
          LET before == created_payloads(svc)
              after == created_payloads(svc')
          IN  /\ Len(after) = Len(before) + 1
              /\ SubSeq(after, 1, Len(before)) = before
              /\ after[Len(after)] \notin Elements(before)
              /\ after[Len(after)].type = get_type_for_kickstart(call'.arg.text)
              /\ active_payload(svc') = after[Len(after)]]_vars

C22_Witness ==
    /\ call.op = "process_kickstart"
    /\ get_type_for_kickstart(call.arg.text) # "NoneType"
    /\ Len(created_payloads(svc)) = MaxPayloads
    /\ svc.log[1].active_payload \in ForeignPayloads
    /\ active_payload(svc) = created_payloads(svc)[MaxPayloads]

\* the number of entries of the last call's log that have the name
Emitted(name) == Cardinality({i \in 1..Len(svc.log) : svc.log[i].name = name})

\* C23: a listener of created_payloads_changed finds the new payload as the last
\* element of created_payloads, and a listener of active_payload_changed finds
\* the new payload as active_payload; a create_payload call emits
\* created_payloads_changed once and nothing else, an activate_payload call
\* active_payload_changed once and nothing else.
C23_UpdatedThenNotifiedOnce ==
    /\ \A i \in 1..Len(svc.log) :
          /\ svc.log[i].name = "created_payloads_changed" =>
                /\ svc.log[i].created_payloads # <<>>
                /\ svc.log[i].created_payloads[Len(svc.log[i].created_payloads)]
                      = svc.log[i].payload
          /\ svc.log[i].name = "active_payload_changed" =>
                svc.log[i].active_payload = svc.log[i].payload
    /\ call.op = "create_payload" =>
          /\ Emitted("created_payloads_changed") = 1
          /\ Emitted("active_payload_changed") = 0
          /\ svc.log[1].payload = result.obj
    /\ call.op = "activate_payload" =>
          /\ Emitted("active_payload_changed") = 1
          /\ Emitted("created_payloads_changed") = 0
          /\ svc.log[1].payload = call.arg.obj

C23_Witness ==
    /\ call.op = "activate_payload"
    /\ Len(created_payloads(svc)) = 2
    /\ call.arg.obj = created_payloads(svc)[1]
    /\ svc.log[1].active_payload = created_payloads(svc)[1]

\* the places of the log where the last handler instantiated an action class
Instantiations == {i \in 1..Len(gui.log) : gui.log[i].name \in {"completed", "connect_after"}}

\* the list as it was before place i of the log
ListBefore(i) == IF i = 1 THEN gui.entry._actions ELSE gui.log[i - 1]._actions

Calls(name, serial) ==
    {i \in 1..Len(gui.log) : gui.log[i].name = name /\ gui.log[i].serial = serial}

Terminated == gui.where \in {"main_quit", "sys_exit"}

\* C26: an accepted continue terminates the sequencer or leaves the list
\* shorter by at least one entry; no event makes the list longer, and while the
\* main loop runs the list is not empty.  The length of the list therefore
\* bounds the accepted continues that can follow: with n entries the n-th
\* accepted continue, at the latest, is the one that terminates.
C26_ContinueShortensOrTerminates ==
    [][/\ Len(gui'._actions) <= Len(gui._actions)
       /\ (signal'.name = "continue-clicked" /\ signal'.arg = "True") =>
             \/ gui'.where \in {"main_quit", "sys_exit"}
             \/ Len(gui'._actions) < Len(gui._actions)
       /\ gui'.where = "main" => Len(gui'._actions) >= 1
       /\ (signal'.name = "continue-clicked" /\ signal'.arg = "True"
             /\ Len(gui._actions) = 1) => gui'.where = "main_quit"]_vars

C26_Witness ==
    /\ AcceptedContinue
    /\ Terminated
    /\ gui.entry._actions = <<3>>
    /\ gui.instantiated = <<1, 2, 3>>
    /\ Cardinality(gui.mainWindow._stack_contents) = 3

\* C27 as claimed: when a dialog returns, lightbox_off finds an overlay image
\* to remove and raises nothing, whatever dialogs were opened and closed
\* inside its loop; and when no dialog is running no overlay image is left.
C27_LightboxBalanced ==
    /\ signal.name = "response" =>
          /\ gui.entry.mainWindow._overlay_img # "None"
          /\ gui.raised = ""
    /\ (gui.where = "main" /\ gui.dialogs = <<>>) => gui.mainWindow._overlay_img = "None"

====
